---- MODULE Spec2Model ----
(***************************************************************************)
(* Model of the vehicle-insurance training pipeline.                       *)
(*                                                                         *)
(* One run of TrainPipeline.run_pipeline is a sequence of stage calls; each *)
(* stage call (the start_* wrapper together with the component it drives)  *)
(* is one action.  Scores are counted in hundredths (0.02 is 2, 0.6 is 60), *)
(* the split ratio in percent (0.25 is 25).  An exception is the sequence  *)
(* of the types met when unwrapping it, outermost first, so that           *)
(* <<"MyException", "MyException", "ValueError">> is a MyException built   *)
(* from a MyException built from a ValueError.                             *)
(***************************************************************************)
EXTENDS Integers, Sequences, FiniteSets

VARIABLES
    pc,                          \* position of run_pipeline
    invoked,                     \* stages called so far in this run, in call order
    data_ingestion_artifact,
    data_validation_artifact,
    data_transformation_artifact,
    model_trainer_artifact,
    model_evaluation_artifact,
    model_pusher_artifact,
    error,                       \* exception that left run_pipeline, <<>> if none
    raised,                      \* the stage whose call raised, "None" if none did
    best_model,                  \* the deployed model the evaluation found, None before it
    MongoDBClient_client,        \* class attribute MongoDBClient.client
    env_MONGODB_URL,             \* whether the environment variable is set
    mongo_reachable,             \* whether the document store answers
    collection,                  \* the source collection: record count and field names
    files,                       \* files written under the run directory: path -> rows
    s3_reachable,                \* whether the artifact store answers
    s3,                          \* objects in the artifact store: [bucket, key]
    passed,                      \* the artifacts each stage call of this run received
    run,                         \* the number of the run in this process, from 1
    writes,                      \* which run wrote which path: [path, run]
    ing_pc,                      \* position of a call of initiate_data_ingestion
    ing_config,                  \* the DataIngestionConfig of that call
    ing_dataframe,               \* the frame fetched by that call, None before
    split_sets,                  \* the train and test frames of that call, None before
    ing_steps,                   \* the steps that call has taken, in order
    instances,                   \* the MongoDBClient instances constructed, in order
    connections,                 \* the MongoClient connections created in the process
    proj1_data,                  \* the Proj1Data instance in use, None before
    export_result,               \* the last call of export_collection_as_dataframe
    attempts                     \* the MongoDBClient constructions tried, in order

vars == <<pc, invoked, data_ingestion_artifact, data_validation_artifact,
          data_transformation_artifact, model_trainer_artifact,
          model_evaluation_artifact, model_pusher_artifact, error, raised,
          best_model, MongoDBClient_client, env_MONGODB_URL, mongo_reachable, collection,
          files, s3_reachable, s3, passed, run, writes,
          ing_pc, ing_config, ing_dataframe, split_sets, ing_steps,
          instances, connections, proj1_data, export_result, attempts>>

----------------------------------------------------------------------------
(* Bounds *)

MaxRecords == 5        \* largest source collection explored
MaxScore == 100        \* scores range over 0 .. MaxScore hundredths

Scores == 0 .. MaxScore

----------------------------------------------------------------------------
(* Constants of src/constants/__init__.py *)

DATABASE_NAME == "Proj1"
MODEL_FILE_NAME == "model.pkl"
FILE_NAME == "data.csv"
TRAIN_FILE_NAME == "train.csv"
TEST_FILE_NAME == "test.csv"
DATA_INGESTION_COLLECTION_NAME == "Proj1-Data"
DATA_INGESTION_TRAIN_TEST_SPLIT_RATIO == 25
MODEL_TRAINER_EXPECTED_SCORE == 60
MODEL_EVALUATION_CHANGED_THRESHOLD_SCORE == 2
MODEL_BUCKET_NAME == "my-model-mlopsproj"
MODEL_PUSHER_S3_KEY == "model-registry"

----------------------------------------------------------------------------
(* Values *)

None == [tag |-> "None"]
NoError == << >>

\* The outcome of a call: a returned value or a raised exception.
Return(v) == [ok |-> TRUE, val |-> v, exc |-> NoError]
Raise(e) == [ok |-> FALSE, val |-> None, exc |-> e]

\* Numbers as Python types them: a float, counted in hundredths, or an int.
PyFloat(hundredths) == [kind |-> "f", v |-> hundredths]
PyInt(k) == [kind |-> "i", v |-> k]

\* MyException(e, sys): the uniform error type, built from the exception e.
MyException(e) == <<"MyException">> \o e

----------------------------------------------------------------------------
(* src/entity/config_entity.py *)

ARTIFACT_DIR == "artifact"
DATA_INGESTION_DIR_NAME == "data_ingestion"
DATA_INGESTION_FEATURE_STORE_DIR == "feature_store"
DATA_INGESTION_INGESTED_DIR == "ingested"

\* datetime.now().strftime(...), evaluated once when the module is imported.
TIMESTAMP == "11_02_2026_06_09_00"

\* os.path.join: a path is the sequence of its components.
TrainingPipelineConfig ==
    [artifact_dir |-> <<ARTIFACT_DIR, TIMESTAMP>>, timestamp |-> TIMESTAMP]

data_ingestion_dir == TrainingPipelineConfig.artifact_dir \o <<DATA_INGESTION_DIR_NAME>>

DataIngestionConfig ==
    [data_ingestion_dir |-> data_ingestion_dir,
     feature_store_file_path |->
         data_ingestion_dir \o <<DATA_INGESTION_FEATURE_STORE_DIR, FILE_NAME>>,
     training_file_path |->
         data_ingestion_dir \o <<DATA_INGESTION_INGESTED_DIR, TRAIN_FILE_NAME>>,
     testing_file_path |->
         data_ingestion_dir \o <<DATA_INGESTION_INGESTED_DIR, TEST_FILE_NAME>>,
     train_test_split_ratio |-> PyFloat(DATA_INGESTION_TRAIN_TEST_SPLIT_RATIO),
     collection_name |-> DATA_INGESTION_COLLECTION_NAME]

ModelTrainerConfigNoMinimum ==
    [expected_accuracy |-> 0]

ModelTrainerConfig ==
    [expected_accuracy |-> MODEL_TRAINER_EXPECTED_SCORE]

ModelEvaluationConfigAnyGain ==
    [changed_threshold_score |-> 0,
     bucket_name |-> MODEL_BUCKET_NAME,
     s3_model_key_path |-> MODEL_FILE_NAME]

ModelEvaluationConfig ==
    [changed_threshold_score |-> MODEL_EVALUATION_CHANGED_THRESHOLD_SCORE,
     bucket_name |-> MODEL_BUCKET_NAME,
     s3_model_key_path |-> MODEL_FILE_NAME]

ModelPusherConfigWrongKey ==
    [bucket_name |-> MODEL_BUCKET_NAME,
     s3_model_key_path |-> MODEL_PUSHER_S3_KEY]

ModelPusherConfig ==
    [bucket_name |-> MODEL_BUCKET_NAME,
     s3_model_key_path |-> MODEL_FILE_NAME]

----------------------------------------------------------------------------
(* src/configuration/mongo_db_connection.py *)

\* The connections of a process are numbered in the order of their creation;
\* 0 stands for None, TheMongoClient is the first connection.
NoClient == 0
TheMongoClient == 1

\* pymongo.MongoClient(url): a connection other than every earlier one.  The
\* class attribute always holds the latest created, so its successor is new.
pymongo_MongoClient(client) == client + 1

\* MongoDBClient.__init__: the outcome and the class attribute afterwards.
\* pymongo.MongoClient(...) connects lazily, so construction itself does not
\* depend on the server being reachable.
MongoDBClient_init_always_connects(client, url_set, database_name) ==
    IF ~url_set
    THEN [ok |-> FALSE, exc |-> MyException(<<"Exception">>), client |-> client,
          val |-> None]
    ELSE LET shared == pymongo_MongoClient(client)
         IN  [ok |-> TRUE, exc |-> NoError, client |-> shared,
              val |-> [client |-> shared, database_name |-> database_name]]

MongoDBClient_init_keeps_failed_client(client, url_set, database_name) ==
    IF client = NoClient /\ ~url_set
    THEN [ok |-> FALSE, exc |-> MyException(<<"Exception">>),
          client |-> pymongo_MongoClient(client), val |-> None]
    ELSE LET shared == IF client = NoClient THEN pymongo_MongoClient(client) ELSE client
         IN  [ok |-> TRUE, exc |-> NoError, client |-> shared,
              val |-> [client |-> shared, database_name |-> database_name]]

MongoDBClient_init(client, url_set, database_name) ==
    IF client = NoClient /\ ~url_set
    THEN [ok |-> FALSE, exc |-> MyException(<<"Exception">>), client |-> client,
          val |-> None]
    ELSE LET shared == IF client = NoClient THEN pymongo_MongoClient(client) ELSE client
         IN  [ok |-> TRUE, exc |-> NoError, client |-> shared,
              val |-> [client |-> shared, database_name |-> database_name]]

----------------------------------------------------------------------------
(* src/data_access/proj1_data.py *)

\* Proj1Data.__init__
Proj1Data_init(client, url_set) ==
    LET c == MongoDBClient_init(client, url_set, DATABASE_NAME)
    IN  IF c.ok
        THEN [ok |-> TRUE, exc |-> NoError, client |-> c.client,
              val |-> [mongo_client |-> c.val]]
        ELSE [ok |-> FALSE, exc |-> MyException(c.exc), client |-> c.client,
              val |-> None]

\* The documents of a collection of a database; a collection that was never
\* written has none.
Find(coll, database_name, collection_name) ==
    IF database_name = DATABASE_NAME /\ collection_name = DATA_INGESTION_COLLECTION_NAME
    THEN coll
    ELSE [n |-> 0, fields |-> {}]

\* pd.DataFrame(list(collection.find())): no documents give a frame without
\* rows and without columns.
DataFrame(docs) ==
    [rows |-> docs.n, columns |-> IF docs.n = 0 THEN {} ELSE docs.fields]

\* Proj1Data.export_collection_as_dataframe
export_collection_as_dataframe(self, reachable, coll, collection_name, database_name) ==
    IF database_name # None
    THEN \* self.mongo_client[database_name]: MongoDBClient defines no __getitem__
         Raise(MyException(<<"TypeError">>))
    ELSE IF ~reachable
    THEN \* collection.find() is the first round trip to the server
         Raise(MyException(<<"ServerSelectionTimeoutError">>))
    ELSE LET df == DataFrame(Find(coll, self.mongo_client.database_name, collection_name))
         IN  Return([rows |-> df.rows, columns |-> df.columns \ {"id"}])

----------------------------------------------------------------------------
(* src/components/data_ingestion.py *)

\* dataframe.to_csv(path): the file at path now holds the frame's rows.
to_csv(fs, path, df) ==
    {f \in fs : f.path # path} \cup {[path |-> path, rows |-> df.rows]}

\* sklearn's train_test_split(dataframe, test_size=ratio): the row counts of
\* the two parts, or ValueError.  A float test_size is a fraction of the rows
\* and must lie strictly between 0 and 1; an int test_size is a number of
\* rows and must lie between 1 and the number of rows less one.
train_test_split(df, ratio) ==
    IF \/ ratio.kind = "i" /\ (ratio.v >= df.rows \/ ratio.v <= 0)
       \/ ratio.kind = "f" /\ (ratio.v <= 0 \/ ratio.v >= 100)
    THEN Raise(<<"ValueError">>)
    ELSE LET n_test == IF ratio.kind = "f"
                       THEN (ratio.v * df.rows + 99) \div 100      \* ceil
                       ELSE ratio.v
             n_train == df.rows - n_test
         IN  IF n_train = 0
             THEN Raise(<<"ValueError">>)
             ELSE Return([train_set |-> [rows |-> n_train, columns |-> df.columns],
                          test_set |-> [rows |-> n_test, columns |-> df.columns]])

\* DataIngestion.export_data_into_feature_store
export_data_into_feature_store(config, client, url_set, reachable, coll, fs) ==
    LET my_data == Proj1Data_init(client, url_set)
    IN  IF ~my_data.ok
        THEN [ok |-> FALSE, val |-> None, exc |-> MyException(my_data.exc),
              client |-> my_data.client, files |-> fs]
        ELSE LET dataframe == export_collection_as_dataframe(
                                  my_data.val, reachable, coll,
                                  config.collection_name, None)
             IN  IF ~dataframe.ok
                 THEN [ok |-> FALSE, val |-> None, exc |-> MyException(dataframe.exc),
                       client |-> my_data.client, files |-> fs]
                 ELSE [ok |-> TRUE, val |-> dataframe.val, exc |-> NoError,
                       client |-> my_data.client,
                       files |-> to_csv(fs, config.feature_store_file_path, dataframe.val)]

\* DataIngestion.split_data_as_train_test
split_data_as_train_test_swallow(config, dataframe, fs) ==
    LET split == train_test_split(dataframe, config.train_test_split_ratio)
    IN  IF ~split.ok
        THEN [ok |-> TRUE, exc |-> NoError, files |-> fs]
        ELSE [ok |-> TRUE, exc |-> NoError,
              files |-> to_csv(to_csv(fs, config.training_file_path, split.val.train_set),
                               config.testing_file_path, split.val.test_set)]

split_data_as_train_test(config, dataframe, fs) ==
    LET split == train_test_split(dataframe, config.train_test_split_ratio)
    IN  IF ~split.ok
        THEN [ok |-> FALSE, exc |-> MyException(split.exc), files |-> fs]
        ELSE [ok |-> TRUE, exc |-> NoError,
              files |-> to_csv(to_csv(fs, config.training_file_path, split.val.train_set),
                               config.testing_file_path, split.val.test_set)]

\* DataIngestion.initiate_data_ingestion
initiate_data_ingestion(config, client, url_set, reachable, coll, fs) ==
    LET export == export_data_into_feature_store(config, client, url_set, reachable, coll, fs)
    IN  IF ~export.ok
        THEN [ok |-> FALSE, val |-> None, exc |-> MyException(export.exc),
              client |-> export.client, files |-> export.files]
        ELSE LET split == split_data_as_train_test(config, export.val, export.files)
             IN  IF ~split.ok
                 THEN [ok |-> FALSE, val |-> None, exc |-> MyException(split.exc),
                       client |-> export.client, files |-> split.files]
                 ELSE [ok |-> TRUE, exc |-> NoError,
                       val |-> [trained_file_path |-> config.training_file_path,
                                test_file_path |-> config.testing_file_path],
                       client |-> export.client, files |-> split.files]

----------------------------------------------------------------------------
(* The components driven by the pipeline: data validation, data            *)
(* transformation, model trainer, model evaluation and model pusher, each  *)
(* by its contract.  A component raises a MyException built from the       *)
(* stage-local failure.                                                    *)

artifact_dir == TrainingPipelineConfig.artifact_dir

\* DataValidation.initiate_data_validation: a pass/fail result, never an
\* exception for a schema mismatch; fault is a failure to read the files.
initiate_data_validation(ingestion_artifact, columns_match, fault) ==
    IF fault
    THEN Raise(MyException(<<"OSError">>))
    ELSE Return([validation_status |-> columns_match,
                 message |-> IF columns_match THEN "" ELSE "columns mismatch",
                 validation_report_file_path |->
                     artifact_dir \o <<"data_validation", "report.yaml">>])

\* DataTransformation.initiate_data_transformation: gated on the validation
\* result.
initiate_data_transformation(ingestion_artifact, validation_artifact, column_absent) ==
    IF ~validation_artifact.validation_status \/ column_absent
    THEN Raise(MyException(<<"TransformationError">>))
    ELSE Return([transformed_object_file_path |->
                     artifact_dir \o <<"data_transformation", "transformed_object", "preprocessing.pkl">>,
                 transformed_train_file_path |->
                     artifact_dir \o <<"data_transformation", "transformed", "train.npy">>,
                 transformed_test_file_path |->
                     artifact_dir \o <<"data_transformation", "transformed", "test.npy">>])

\* ModelTrainer.initiate_model_trainer: fails on incompatible shapes and on a
\* score below the expected minimum.
initiate_model_trainer(config, transformation_artifact, shapes_ok, score) ==
    IF ~shapes_ok
    THEN Raise(MyException(<<"TrainingError">>))
    ELSE IF score < config.expected_accuracy
    THEN Raise(MyException(<<"AcceptanceError">>))
    ELSE Return([trained_model_file_path |->
                     artifact_dir \o <<"model_trainer", "trained_model", MODEL_FILE_NAME>>,
                 metric_artifact |-> [f1_score |-> score,
                                      precision_score |-> score,
                                      recall_score |-> score]])

\* What the evaluation finds deployed: nothing, or a model and its score.
NoModel == [exists |-> FALSE]
Model(f1) == [exists |-> TRUE, f1_score |-> f1]

\* Whether the artifact store holds an object at bucket/key.
s3_exists(objects, bucket, key) ==
    \E o \in objects : o.bucket = bucket /\ o.key = key

\* The deployed model the evaluation loads from bucket/key, if there is one;
\* old_f1 is the score that model attains on the test split.
get_best_model(config, objects, old_f1) ==
    IF s3_exists(objects, config.bucket_name, config.s3_model_key_path)
    THEN Model(old_f1)
    ELSE NoModel

\* The evaluation artifact for a decision.
EvaluationArtifact(config, trainer_artifact, accepted, delta) ==
    [is_model_accepted |-> accepted,
     changed_accuracy |-> delta,
     s3_model_path |-> config.s3_model_key_path,
     trained_model_path |-> trainer_artifact.trained_model_file_path]

\* ModelEvaluation.initiate_model_evaluation
initiate_model_evaluation_nomodel(config, ingestion_artifact, trainer_artifact, store_up, objects, old_f1) ==
    IF ~store_up
    THEN [ok |-> FALSE, val |-> None, exc |-> MyException(<<"ConnectionError">>),
          best |-> None]
    ELSE LET best == get_best_model(config, objects, old_f1)
             tmp_best == IF best.exists THEN best.f1_score ELSE 0
             delta == trainer_artifact.metric_artifact.f1_score - tmp_best
         IN  [ok |-> TRUE, exc |-> NoError, best |-> best,
              val |-> EvaluationArtifact(config, trainer_artifact,
                                         delta > config.changed_threshold_score, delta)]

initiate_model_evaluation(config, ingestion_artifact, trainer_artifact, store_up, objects, old_f1) ==
    IF ~store_up
    THEN [ok |-> FALSE, val |-> None, exc |-> MyException(<<"ConnectionError">>),
          best |-> None]
    ELSE LET best == get_best_model(config, objects, old_f1)
         IN  IF ~best.exists
             THEN [ok |-> TRUE, exc |-> NoError, best |-> best,
                   val |-> EvaluationArtifact(config, trainer_artifact, TRUE, 0)]
             ELSE LET delta == trainer_artifact.metric_artifact.f1_score - best.f1_score
                  IN  [ok |-> TRUE, exc |-> NoError, best |-> best,
                       val |-> EvaluationArtifact(config, trainer_artifact,
                                   delta > config.changed_threshold_score, delta)]

\* ModelPusher.initiate_model_pusher: uploads the model to bucket/key and
\* returns the bucket and key written.
initiate_model_pusher(config, evaluation_artifact, upload_ok, objects) ==
    IF ~upload_ok
    THEN [ok |-> FALSE, val |-> None, exc |-> MyException(<<"DeploymentError">>),
          objects |-> objects]
    ELSE [ok |-> TRUE, exc |-> NoError,
          val |-> [bucket_name |-> config.bucket_name,
                   s3_model_path |-> config.s3_model_key_path],
          objects |-> objects \cup {[bucket |-> config.bucket_name,
                                     key |-> config.s3_model_key_path]}]

----------------------------------------------------------------------------
(* src/pipline/training_pipeline.py: the start_* methods.  Each returns the *)
(* component's artifact, or raises a MyException built from what the        *)
(* component raised.                                                        *)

start_data_ingestion(config, client, url_set, reachable, coll, fs) ==
    LET r == initiate_data_ingestion(config, client, url_set, reachable, coll, fs)
    IN  IF r.ok THEN r ELSE [r EXCEPT !.exc = MyException(r.exc)]

start_data_validation(ingestion_artifact, columns_match, fault) ==
    LET r == initiate_data_validation(ingestion_artifact, columns_match, fault)
    IN  IF r.ok THEN r ELSE [r EXCEPT !.exc = MyException(r.exc)]

start_data_transformation(ingestion_artifact, validation_artifact, column_absent) ==
    LET r == initiate_data_transformation(ingestion_artifact, validation_artifact, column_absent)
    IN  IF r.ok THEN r ELSE [r EXCEPT !.exc = MyException(r.exc)]

start_model_trainer(transformation_artifact, shapes_ok, score) ==
    LET r == initiate_model_trainer(ModelTrainerConfig, transformation_artifact, shapes_ok, score)
    IN  IF r.ok THEN r ELSE [r EXCEPT !.exc = MyException(r.exc)]

start_model_evaluation(ingestion_artifact, trainer_artifact, store_up, objects, old_f1) ==
    LET r == initiate_model_evaluation(ModelEvaluationConfig, ingestion_artifact,
                                       trainer_artifact, store_up, objects, old_f1)
    IN  IF r.ok THEN r ELSE [r EXCEPT !.exc = MyException(r.exc)]

start_model_pusher(evaluation_artifact, upload_ok, objects) ==
    LET r == initiate_model_pusher(ModelPusherConfig, evaluation_artifact, upload_ok, objects)
    IN  IF r.ok THEN r ELSE [r EXCEPT !.exc = MyException(r.exc)]

----------------------------------------------------------------------------
(* src/pipline/training_pipeline.py: run_pipeline *)

\* The except clause of run_pipeline: log, then raise MyException(e, sys).
run_pipeline_except_nocause(e) == <<"MyException", "str">>

run_pipeline_except(e) == MyException(e)

\* Where run_pipeline is after a stage call at position p has raised.
PcAfterRaiseRetry(p) == p

PcAfterRaiseSwallow(p) == "Completed"

PcAfterRaiseHangs(p) == "Raising"

PcAfterRaise(p) == "Failed"

\* Where run_pipeline goes once a stage call at position p has returned; the
\* evaluation artifact decides after the evaluation.
PcAfterReturnRepeat(p, artifact) ==
    CASE p = "Ingesting" -> "Validating"
      [] p = "Validating" -> "Validating"
      [] p = "Transforming" -> "Training"
      [] p = "Training" -> "Evaluating"
      [] p = "Evaluating" -> IF ~artifact.is_model_accepted THEN "Stopped" ELSE "Pushing"
      [] p = "Pushing" -> "Completed"

PcAfterReturnAlwaysPush(p, artifact) ==
    CASE p = "Ingesting" -> "Validating"
      [] p = "Validating" -> "Transforming"
      [] p = "Transforming" -> "Training"
      [] p = "Training" -> "Evaluating"
      [] p = "Evaluating" -> "Pushing"
      [] p = "Pushing" -> "Completed"

PcAfterReturnRejectRaises(p, artifact) ==
    CASE p = "Ingesting" -> "Validating"
      [] p = "Validating" -> "Transforming"
      [] p = "Transforming" -> "Training"
      [] p = "Training" -> "Evaluating"
      [] p = "Evaluating" -> IF ~artifact.is_model_accepted THEN "Failed" ELSE "Pushing"
      [] p = "Pushing" -> "Completed"

PcAfterReturnSkipPush(p, artifact) ==
    CASE p = "Ingesting" -> "Validating"
      [] p = "Validating" -> "Transforming"
      [] p = "Transforming" -> "Training"
      [] p = "Training" -> "Evaluating"
      [] p = "Evaluating" -> IF ~artifact.is_model_accepted THEN "Stopped" ELSE "Completed"
      [] p = "Pushing" -> "Completed"

PcAfterReturn(p, artifact) ==
    CASE p = "Ingesting" -> "Validating"
      [] p = "Validating" -> "Transforming"
      [] p = "Transforming" -> "Training"
      [] p = "Training" -> "Evaluating"
      [] p = "Evaluating" -> IF ~artifact.is_model_accepted THEN "Stopped" ELSE "Pushing"
      [] p = "Pushing" -> "Completed"

\* The stage call at position pc raised exc: run_pipeline logs and re-raises.
StageRaised(stage, exc) ==
    /\ pc' = PcAfterRaise(pc)
    /\ error' = run_pipeline_except(exc)
    /\ raised' = stage

\* The stage call at position pc returned artifact.
StageReturned(artifact) ==
    /\ pc' = PcAfterReturn(pc, artifact)
    /\ UNCHANGED <<error, raised>>

\* The variables of a direct call of initiate_data_ingestion.
IngestionVars == <<ing_pc, ing_config, ing_dataframe, split_sets, ing_steps>>

\* The variables of direct uses of MongoDBClient and Proj1Data.
MongoVars == <<instances, connections, proj1_data, export_result, attempts>>

\* What no stage changes.
Env == <<env_MONGODB_URL, mongo_reachable, collection, s3_reachable, run,
         IngestionVars, MongoVars>>

\* The files a call of initiate_data_ingestion writes: those it leaves on an
\* empty file system.
FilesWrittenBy(config, client, url_set, reachable, coll) ==
    initiate_data_ingestion(config, client, url_set, reachable, coll, {}).files

Ingestion ==
    /\ pc = "Ingesting"
    /\ invoked' = Append(invoked, "Ingestion")
    /\ LET r == start_data_ingestion(DataIngestionConfig, MongoDBClient_client,
                                     env_MONGODB_URL, mongo_reachable, collection, files)
       IN  /\ MongoDBClient_client' = r.client
           /\ files' = r.files
           /\ writes' = writes \cup
                  {[path |-> f.path, run |-> run] :
                      f \in FilesWrittenBy(DataIngestionConfig, MongoDBClient_client,
                                           env_MONGODB_URL, mongo_reachable, collection)}
           /\ IF r.ok
              THEN data_ingestion_artifact' = r.val /\ StageReturned(r.val)
              ELSE UNCHANGED data_ingestion_artifact /\ StageRaised("Ingestion", r.exc)
    /\ passed' = [passed EXCEPT !["Ingestion"] = << >>]
    /\ UNCHANGED best_model
    /\ UNCHANGED <<data_validation_artifact, data_transformation_artifact,
                   model_trainer_artifact, model_evaluation_artifact,
                   model_pusher_artifact, Env, s3>>

Validation ==
    /\ pc = "Validating"
    /\ invoked' = Append(invoked, "Validation")
    /\ passed' = [passed EXCEPT !["Validation"] = <<data_ingestion_artifact>>]
    /\ \E columns_match \in BOOLEAN, fault \in BOOLEAN :
         LET r == start_data_validation(data_ingestion_artifact, columns_match, fault)
         IN  IF r.ok
             THEN data_validation_artifact' = r.val /\ StageReturned(r.val)
             ELSE UNCHANGED data_validation_artifact /\ StageRaised("Validation", r.exc)
    /\ UNCHANGED <<best_model, writes>>
    /\ UNCHANGED <<data_ingestion_artifact, data_transformation_artifact,
                   model_trainer_artifact, model_evaluation_artifact,
                   model_pusher_artifact, MongoDBClient_client, files, Env, s3>>

TransformationRewritesIngestionArtifact ==
    /\ pc = "Transforming"
    /\ invoked' = Append(invoked, "Transformation")
    /\ passed' = [passed EXCEPT !["Transformation"] = <<data_ingestion_artifact, data_validation_artifact>>]
    /\ \E column_absent \in BOOLEAN :
         LET r == start_data_transformation(data_ingestion_artifact,
                                            data_validation_artifact, column_absent)
         IN  IF r.ok
             THEN data_transformation_artifact' = r.val /\ StageReturned(r.val)
             ELSE UNCHANGED data_transformation_artifact
                  /\ StageRaised("Transformation", r.exc)
    /\ UNCHANGED <<best_model, writes>>
    /\ data_ingestion_artifact' =
           [data_ingestion_artifact EXCEPT !.trained_file_path = <<"transformed">>]
    /\ UNCHANGED <<data_validation_artifact,
                   model_trainer_artifact, model_evaluation_artifact,
                   model_pusher_artifact, MongoDBClient_client, files, Env, s3>>

Transformation ==
    /\ pc = "Transforming"
    /\ invoked' = Append(invoked, "Transformation")
    /\ passed' = [passed EXCEPT !["Transformation"] = <<data_ingestion_artifact, data_validation_artifact>>]
    /\ \E column_absent \in BOOLEAN :
         LET r == start_data_transformation(data_ingestion_artifact,
                                            data_validation_artifact, column_absent)
         IN  IF r.ok
             THEN data_transformation_artifact' = r.val /\ StageReturned(r.val)
             ELSE UNCHANGED data_transformation_artifact
                  /\ StageRaised("Transformation", r.exc)
    /\ UNCHANGED <<best_model, writes>>
    /\ UNCHANGED <<data_ingestion_artifact, data_validation_artifact,
                   model_trainer_artifact, model_evaluation_artifact,
                   model_pusher_artifact, MongoDBClient_client, files, Env, s3>>

Training ==
    /\ pc = "Training"
    /\ invoked' = Append(invoked, "Training")
    /\ passed' = [passed EXCEPT !["Training"] = <<data_transformation_artifact>>]
    /\ \E shapes_ok \in BOOLEAN, score \in Scores :
         LET r == start_model_trainer(data_transformation_artifact, shapes_ok, score)
         IN  IF r.ok
             THEN model_trainer_artifact' = r.val /\ StageReturned(r.val)
             ELSE UNCHANGED model_trainer_artifact /\ StageRaised("Training", r.exc)
    /\ UNCHANGED <<best_model, writes>>
    /\ UNCHANGED <<data_ingestion_artifact, data_validation_artifact,
                   data_transformation_artifact, model_evaluation_artifact,
                   model_pusher_artifact, MongoDBClient_client, files, Env, s3>>

Evaluation ==
    /\ pc = "Evaluating"
    /\ invoked' = Append(invoked, "Evaluation")
    /\ passed' = [passed EXCEPT !["Evaluation"] = <<data_ingestion_artifact, model_trainer_artifact>>]
    /\ \E old_f1 \in Scores :
         LET r == start_model_evaluation(data_ingestion_artifact, model_trainer_artifact,
                                         s3_reachable, s3, old_f1)
         IN  /\ best_model' = r.best
             /\ IF r.ok
                THEN model_evaluation_artifact' = r.val /\ StageReturned(r.val)
                ELSE UNCHANGED model_evaluation_artifact
                     /\ StageRaised("Evaluation", r.exc)
    /\ UNCHANGED writes
    /\ UNCHANGED <<data_ingestion_artifact, data_validation_artifact,
                   data_transformation_artifact, model_trainer_artifact,
                   model_pusher_artifact, MongoDBClient_client, files, Env, s3>>

Pusher ==
    /\ pc = "Pushing"
    /\ invoked' = Append(invoked, "Pusher")
    /\ passed' = [passed EXCEPT !["Pusher"] = <<model_evaluation_artifact>>]
    /\ \E upload_ok \in BOOLEAN :
         LET r == start_model_pusher(model_evaluation_artifact, upload_ok, s3)
         IN  /\ s3' = r.objects
             /\ IF r.ok
                THEN model_pusher_artifact' = r.val /\ StageReturned(r.val)
                ELSE UNCHANGED model_pusher_artifact /\ StageRaised("Pusher", r.exc)
    /\ UNCHANGED <<best_model, writes>>
    /\ UNCHANGED <<data_ingestion_artifact, data_validation_artifact,
                   data_transformation_artifact, model_trainer_artifact,
                   model_evaluation_artifact, MongoDBClient_client, files, Env>>

Fields == {{"_id", "Response"}, {"_id", "id", "Response"}}

DeployedModel == [bucket |-> MODEL_BUCKET_NAME, key |-> MODEL_FILE_NAME]

StageNames ==
    {"Ingestion", "Validation", "Transformation", "Training", "Evaluation", "Pusher"}

\* The start of a run: TrainPipeline() and the entry of run_pipeline.
RunStart ==
    /\ pc = "Ingesting"
    /\ invoked = << >>
    /\ data_ingestion_artifact = None
    /\ data_validation_artifact = None
    /\ data_transformation_artifact = None
    /\ model_trainer_artifact = None
    /\ model_evaluation_artifact = None
    /\ model_pusher_artifact = None
    /\ error = NoError
    /\ raised = "None"
    /\ best_model = None
    /\ passed = [stage \in StageNames |-> << >>]

\* The document store and the process's connection to it.
InitMongo ==
    /\ MongoDBClient_client \in {NoClient, TheMongoClient}
    /\ env_MONGODB_URL \in BOOLEAN
    /\ mongo_reachable \in BOOLEAN
    /\ collection \in {[n |-> 0, fields |-> {}]}
                      \cup [n : 1 .. MaxRecords, fields : Fields]

\* No direct call of initiate_data_ingestion is under way.
NoIngestionCall ==
    /\ ing_pc = "none"
    /\ ing_config = DataIngestionConfig
    /\ ing_dataframe = None
    /\ split_sets = None
    /\ ing_steps = << >>

\* No direct use of MongoDBClient or Proj1Data.
NoMongoUse ==
    /\ instances = << >>
    /\ connections = {}
    /\ proj1_data = None
    /\ export_result = None
    /\ attempts = << >>

Init ==
    /\ RunStart
    /\ InitMongo
    /\ files = {}
    /\ s3_reachable \in BOOLEAN
    /\ s3 \in {{}, {DeployedModel}}
    /\ run = 1
    /\ writes = {}
    /\ NoIngestionCall
    /\ NoMongoUse

Next ==
    \/ Ingestion
    \/ Validation
    \/ Transformation
    \/ Training
    \/ Evaluation
    \/ Pusher

Spec == Init /\ [][Next]_vars

\* A run in which every stage call that has been made eventually returns or
\* raises: run_pipeline is sequential, so the pending call is the only step.
SpecLive == Init /\ [][Next]_vars /\ WF_vars(Next)

----------------------------------------------------------------------------
(* src/components/data_ingestion.py, step by step: a call of               *)
(* DataIngestion(config).initiate_data_ingestion() on a fresh run          *)
(* directory, for any configured split ratio.  Writing a file may fail.    *)

MaxIntRatio == 2       \* largest int given as split ratio

\* The split ratios tried: floats from -0.25 to 1.5, and ints.
Ratios ==
    {PyFloat(h) : h \in {-25, 0, 25, 50, 75, 100, 150}}
        \cup {PyInt(k) : k \in -1 .. MaxIntRatio}

\* The except clauses on the way out of a call.
export_data_into_feature_store_except(e) == MyException(e)
split_data_as_train_test_except(e) == MyException(e)
initiate_data_ingestion_except(e) == MyException(e)

\* The order of the statements of initiate_data_ingestion and of the two
\* methods it calls.
NextStepSplitFirst(p) ==
    CASE p = "fetch" -> "split"
      [] p = "split" -> "persist_snapshot"
      [] p = "persist_snapshot" -> "persist_train"
      [] p = "persist_train" -> "persist_test"
      [] p = "persist_test" -> "return_artifact"
      [] p = "return_artifact" -> "returned"

NextStep(p) ==
    CASE p = "fetch" -> "persist_snapshot"
      [] p = "persist_snapshot" -> "split"
      [] p = "split" -> "persist_train"
      [] p = "persist_train" -> "persist_test"
      [] p = "persist_test" -> "return_artifact"
      [] p = "return_artifact" -> "returned"

\* What a call of initiate_data_ingestion leaves alone.
IngestionFrame ==
    UNCHANGED <<pc, invoked, data_validation_artifact, data_transformation_artifact,
                model_trainer_artifact, model_evaluation_artifact,
                model_pusher_artifact, raised, best_model, passed, run, writes,
                s3, s3_reachable, env_MONGODB_URL, mongo_reachable, collection,
                ing_config, MongoVars>>

\* The step at ing_pc is taken.
StepTaken == ing_steps' = Append(ing_steps, ing_pc)

\* The step at ing_pc raised exc inside initiate_data_ingestion.
StepRaised(exc) ==
    /\ ing_pc' = "failed"
    /\ error' = initiate_data_ingestion_except(exc)
    /\ UNCHANGED data_ingestion_artifact

\* The step at ing_pc completed.
StepDone ==
    /\ ing_pc' = NextStep(ing_pc)
    /\ UNCHANGED <<error, data_ingestion_artifact>>

\* export_data_into_feature_store: Proj1Data() and
\* export_collection_as_dataframe(collection_name).
Fetch ==
    /\ ing_pc = "fetch"
    /\ StepTaken
    /\ LET data == Proj1Data_init(MongoDBClient_client, env_MONGODB_URL)
       IN  /\ MongoDBClient_client' = data.client
           /\ IF ~data.ok
              THEN /\ StepRaised(export_data_into_feature_store_except(data.exc))
                   /\ UNCHANGED ing_dataframe
              ELSE LET r == export_collection_as_dataframe(
                                data.val, mongo_reachable, collection,
                                ing_config.collection_name, None)
                   IN  IF ~r.ok
                       THEN /\ StepRaised(export_data_into_feature_store_except(r.exc))
                            /\ UNCHANGED ing_dataframe
                       ELSE ing_dataframe' = r.val /\ StepDone
    /\ UNCHANGED <<files, split_sets>>
    /\ IngestionFrame

\* export_data_into_feature_store: dataframe.to_csv(feature_store_file_path)
PersistSnapshot ==
    /\ ing_pc = "persist_snapshot"
    /\ StepTaken
    /\ \E disk_ok \in BOOLEAN :
         IF disk_ok
         THEN /\ files' = to_csv(files, ing_config.feature_store_file_path, ing_dataframe)
              /\ StepDone
         ELSE /\ StepRaised(export_data_into_feature_store_except(<<"OSError">>))
              /\ UNCHANGED files
    /\ UNCHANGED <<MongoDBClient_client, ing_dataframe, split_sets>>
    /\ IngestionFrame

\* split_data_as_train_test: train_test_split(dataframe, test_size=ratio)
Split ==
    /\ ing_pc = "split"
    /\ StepTaken
    /\ LET r == train_test_split(ing_dataframe, ing_config.train_test_split_ratio)
       IN  IF r.ok
           THEN split_sets' = r.val /\ StepDone
           ELSE /\ StepRaised(split_data_as_train_test_except(r.exc))
                /\ UNCHANGED split_sets
    /\ UNCHANGED <<MongoDBClient_client, files, ing_dataframe>>
    /\ IngestionFrame

\* split_data_as_train_test: train_set.to_csv(training_file_path)
PersistTrain ==
    /\ ing_pc = "persist_train"
    /\ StepTaken
    /\ \E disk_ok \in BOOLEAN :
         IF disk_ok
         THEN /\ files' = to_csv(files, ing_config.training_file_path, split_sets.train_set)
              /\ StepDone
         ELSE /\ StepRaised(split_data_as_train_test_except(<<"OSError">>))
              /\ UNCHANGED files
    /\ UNCHANGED <<MongoDBClient_client, ing_dataframe, split_sets>>
    /\ IngestionFrame

\* split_data_as_train_test: test_set.to_csv(testing_file_path)
PersistTestWritesTrainSet ==
    /\ ing_pc = "persist_test"
    /\ StepTaken
    /\ \E disk_ok \in BOOLEAN :
         IF disk_ok
         THEN /\ files' = to_csv(files, ing_config.testing_file_path, split_sets.train_set)
              /\ StepDone
         ELSE /\ StepRaised(split_data_as_train_test_except(<<"OSError">>))
              /\ UNCHANGED files
    /\ UNCHANGED <<MongoDBClient_client, ing_dataframe, split_sets>>
    /\ IngestionFrame

PersistTest ==
    /\ ing_pc = "persist_test"
    /\ StepTaken
    /\ \E disk_ok \in BOOLEAN :
         IF disk_ok
         THEN /\ files' = to_csv(files, ing_config.testing_file_path, split_sets.test_set)
              /\ StepDone
         ELSE /\ StepRaised(split_data_as_train_test_except(<<"OSError">>))
              /\ UNCHANGED files
    /\ UNCHANGED <<MongoDBClient_client, ing_dataframe, split_sets>>
    /\ IngestionFrame

\* initiate_data_ingestion: DataIngestionArtifact(...) and return
ReturnArtifactBeforeTestFile ==
    /\ ing_pc \in {"persist_test", "return_artifact"}
    /\ StepTaken
    /\ data_ingestion_artifact' =
           [trained_file_path |-> ing_config.training_file_path,
            test_file_path |-> ing_config.testing_file_path]
    /\ ing_pc' = "returned"
    /\ UNCHANGED <<error, MongoDBClient_client, files, ing_dataframe, split_sets>>
    /\ IngestionFrame

ReturnArtifact ==
    /\ ing_pc = "return_artifact"
    /\ StepTaken
    /\ data_ingestion_artifact' =
           [trained_file_path |-> ing_config.training_file_path,
            test_file_path |-> ing_config.testing_file_path]
    /\ ing_pc' = NextStep(ing_pc)
    /\ UNCHANGED <<error, MongoDBClient_client, files, ing_dataframe, split_sets>>
    /\ IngestionFrame

InitIngestion ==
    /\ RunStart
    /\ InitMongo
    /\ files = {}
    /\ s3_reachable = TRUE
    /\ s3 = {}
    /\ run = 1
    /\ writes = {}
    /\ ing_pc = "fetch"
    /\ ing_config \in {[DataIngestionConfig EXCEPT !.train_test_split_ratio = ratio] :
                          ratio \in Ratios}
    /\ ing_dataframe = None
    /\ split_sets = None
    /\ ing_steps = << >>
    /\ NoMongoUse

NextIngestion ==
    \/ Fetch
    \/ PersistSnapshot
    \/ Split
    \/ PersistTrain
    \/ PersistTest
    \/ ReturnArtifact

SpecIngestion == InitIngestion /\ [][NextIngestion]_vars

----------------------------------------------------------------------------
(* Several runs in one process: TrainPipeline().run_pipeline() called      *)
(* again after a run has ended.  config_entity.py was imported once, so    *)
(* TIMESTAMP and the config defaults built from it are those of the first  *)
(* run.                                                                    *)

MaxRuns == 2           \* most runs of one process explored

\* TrainPipeline().run_pipeline() after an earlier run of the process ended.
NewRun ==
    /\ pc \in {"Stopped", "Completed", "Failed"}
    /\ run < MaxRuns
    /\ run' = run + 1
    /\ pc' = "Ingesting"
    /\ invoked' = << >>
    /\ data_ingestion_artifact' = None
    /\ data_validation_artifact' = None
    /\ data_transformation_artifact' = None
    /\ model_trainer_artifact' = None
    /\ model_evaluation_artifact' = None
    /\ model_pusher_artifact' = None
    /\ error' = NoError
    /\ raised' = "None"
    /\ best_model' = None
    /\ passed' = [stage \in StageNames |-> << >>]
    /\ UNCHANGED <<MongoDBClient_client, env_MONGODB_URL, mongo_reachable, collection,
                   files, s3_reachable, s3, writes, IngestionVars, MongoVars>>

NextRuns ==
    \/ Next
    \/ NewRun

SpecRuns == Init /\ [][NextRuns]_vars

----------------------------------------------------------------------------
(* src/configuration/mongo_db_connection.py and src/data_access/           *)
(* proj1_data.py used directly: any sequence of MongoDBClient and          *)
(* Proj1Data constructions and exports in one fresh process.               *)

MaxInstances == 3      \* most MongoDBClient constructions explored

\* A str argument, as opposed to None.
PyStr(s) == [tag |-> "str", s |-> s]

\* The database names and collection names tried.
Databases == {DATABASE_NAME, "Other"}
Collections == {DATA_INGESTION_COLLECTION_NAME, "Other-Data"}

\* What the uses of the two classes leave alone.
MongoFrame ==
    UNCHANGED <<pc, invoked, data_ingestion_artifact, data_validation_artifact,
                data_transformation_artifact, model_trainer_artifact,
                model_evaluation_artifact, model_pusher_artifact, error, raised,
                best_model, passed, run, writes, files, s3, s3_reachable,
                env_MONGODB_URL, mongo_reachable, collection, IngestionVars>>

\* The connections created so far, after a construction that left the class
\* attribute at client.
Connected(client) ==
    IF client # MongoDBClient_client THEN connections \cup {client} ELSE connections

\* A construction tried: the environment and the class attribute it found,
\* its outcome r, and the class attribute it left.
Attempt(r) ==
    [url_set |-> env_MONGODB_URL, before |-> MongoDBClient_client,
     ok |-> r.ok, exc |-> r.exc, after |-> r.client]

\* MongoDBClient(database_name)
Construct ==
    /\ Len(attempts) < MaxInstances
    /\ \E database_name \in Databases :
         LET r == MongoDBClient_init(MongoDBClient_client, env_MONGODB_URL, database_name)
         IN  /\ MongoDBClient_client' = r.client
             /\ connections' = Connected(r.client)
             /\ instances' = IF r.ok THEN Append(instances, r.val) ELSE instances
             /\ attempts' = Append(attempts, Attempt(r))
    /\ UNCHANGED <<proj1_data, export_result>>
    /\ MongoFrame

\* Proj1Data()
ConstructProj1Data ==
    /\ Len(attempts) < MaxInstances
    /\ LET r == Proj1Data_init(MongoDBClient_client, env_MONGODB_URL)
       IN  /\ MongoDBClient_client' = r.client
           /\ attempts' = Append(attempts, Attempt(r))
           /\ connections' = Connected(r.client)
           /\ instances' = IF r.ok THEN Append(instances, r.val.mongo_client) ELSE instances
           /\ proj1_data' = IF r.ok THEN r.val ELSE proj1_data
    /\ UNCHANGED export_result
    /\ MongoFrame

\* my_data.export_collection_as_dataframe(collection_name[, database_name])
Export ==
    /\ proj1_data # None
    /\ \E collection_name \in Collections,
          database_name \in {None} \cup {PyStr(d) : d \in Databases} :
         export_result' =
             [collection_name |-> collection_name,
              database_name |-> database_name,
              result |-> export_collection_as_dataframe(
                             proj1_data, mongo_reachable, collection,
                             collection_name, database_name)]
    /\ UNCHANGED <<MongoDBClient_client, connections, instances, proj1_data, attempts>>
    /\ MongoFrame

InitMongoUse ==
    /\ RunStart
    /\ InitMongo
    /\ MongoDBClient_client = NoClient
    /\ files = {}
    /\ s3_reachable = TRUE
    /\ s3 = {}
    /\ run = 1
    /\ writes = {}
    /\ NoIngestionCall
    /\ NoMongoUse

NextMongo ==
    \/ Construct
    \/ ConstructProj1Data
    \/ Export

SpecMongo == InitMongoUse /\ [][NextMongo]_vars

\* The process sets or deletes os.environ[MONGODB_URL_KEY] between two
\* constructions.
SetEnviron ==
    /\ env_MONGODB_URL' = ~env_MONGODB_URL
    /\ UNCHANGED <<pc, invoked, data_ingestion_artifact, data_validation_artifact,
                   data_transformation_artifact, model_trainer_artifact,
                   model_evaluation_artifact, model_pusher_artifact, error, raised,
                   best_model, passed, run, writes, files, s3, s3_reachable,
                   mongo_reachable, collection, MongoDBClient_client, IngestionVars,
                   MongoVars>>

NextMongoEnviron ==
    \/ NextMongo
    \/ SetEnviron

SpecMongoEnviron == InitMongoUse /\ [][NextMongoEnviron]_vars

----------------------------------------------------------------------------
(* Properties *)

\* The stages called so far, as a set.
InvokedStages == {invoked[i] : i \in DOMAIN invoked}

\* The number of calls of a stage so far.
Calls(stage) == Cardinality({i \in DOMAIN invoked : invoked[i] = stage})

\* C1: the stages of a run are called in the order Ingestion, Validation,
\* Transformation, Training, Evaluation, Pusher; a stage is called only once
\* the stage before it has returned its artifact, and no stage is called twice.
C1_FixedStageOrder ==
    /\ Len(invoked) <= 6
    /\ \A i \in DOMAIN invoked :
         invoked[i] = <<"Ingestion", "Validation", "Transformation",
                        "Training", "Evaluation", "Pusher">>[i]
    /\ \A stage \in InvokedStages : Calls(stage) = 1
    /\ "Validation" \in InvokedStages => data_ingestion_artifact # None
    /\ "Transformation" \in InvokedStages => data_validation_artifact # None
    /\ "Training" \in InvokedStages => data_transformation_artifact # None
    /\ "Evaluation" \in InvokedStages => model_trainer_artifact # None
    /\ "Pusher" \in InvokedStages => model_evaluation_artifact # None

\* A run that called all six stages and completed.
C1_Witness ==
    /\ pc = "Completed"
    /\ Len(invoked) = 6
    /\ model_pusher_artifact # None

\* C2: a rejected model stops the run without a call of the Pusher; whenever
\* the Pusher has been called the evaluation of the run accepted the model;
\* a run stops early without an error only through this branch.
C2_RejectionStopsBeforePusher ==
    /\ "Pusher" \in InvokedStages =>
         /\ model_evaluation_artifact # None
         /\ model_evaluation_artifact.is_model_accepted
    /\ (model_evaluation_artifact # None /\ ~model_evaluation_artifact.is_model_accepted) =>
         /\ pc = "Stopped"
         /\ error = NoError
         /\ "Pusher" \notin InvokedStages
         /\ model_pusher_artifact = None
    /\ pc = "Stopped" =>
         /\ model_evaluation_artifact # None
         /\ ~model_evaluation_artifact.is_model_accepted

\* A run stopped by a rejected model.
C2_Witness ==
    /\ pc = "Stopped"
    /\ ~model_evaluation_artifact.is_model_accepted
    /\ invoked[Len(invoked)] = "Evaluation"

\* C3: once a stage has raised, the run has failed with an error, the stage
\* that raised is the last one called, and it was called once (no later
\* stage, no retry).
C3_RaiseEndsRun ==
    raised # "None" =>
        /\ pc = "Failed"
        /\ error # NoError
        /\ invoked[Len(invoked)] = raised
        /\ Calls(raised) = 1

\* The evaluation raised after four stages had returned.
C3_Witness ==
    /\ raised = "Evaluation"
    /\ pc = "Failed"
    /\ model_trainer_artifact # None

\* C4: a run ends with an error exactly when a stage raised; a run whose
\* model was rejected ends without error, after validation and training
\* have returned and without a call of the Pusher.
C4_ErrorIffStageRaised ==
    /\ pc = "Failed" <=> raised # "None"
    /\ error # NoError <=> raised # "None"
    /\ pc \in {"Stopped", "Completed"} => error = NoError
    /\ pc = "Stopped" =>
         /\ data_validation_artifact # None
         /\ model_trainer_artifact # None
         /\ "Pusher" \notin InvokedStages
         /\ model_pusher_artifact = None

\* A rejected run that ended without error.
C4_Witness ==
    /\ pc = "Stopped"
    /\ error = NoError
    /\ model_trainer_artifact # None
    /\ best_model # None
    /\ best_model.exists

\* C5: the validation returns passed = False without raising, and then the
\* transformation raises: the run fails at the transformation and training,
\* evaluation and Pusher are never called.
C5_FailedValidationFailsTransformation ==
    (data_validation_artifact # None /\ ~data_validation_artifact.validation_status) =>
        /\ raised # "Validation"
        /\ pc \in {"Transforming", "Failed"}
        /\ pc = "Failed" => raised = "Transformation"
        /\ InvokedStages \subseteq {"Ingestion", "Validation", "Transformation"}
        /\ data_transformation_artifact = None
        /\ model_trainer_artifact = None

\* The transformation was called with a failed validation.
C5_Witness ==
    /\ data_validation_artifact # None
    /\ ~data_validation_artifact.validation_status
    /\ raised = "Transformation"
    /\ pc = "Failed"

\* The exception a stage raises first, before any wrapping.
StageLocalFailures(stage) ==
    CASE stage = "Ingestion" ->
           IF MongoDBClient_client = NoClient THEN {"Exception"}
           ELSE IF ~mongo_reachable THEN {"ServerSelectionTimeoutError"}
           ELSE {"ValueError"}
      [] stage = "Validation" -> {"OSError"}
      [] stage = "Transformation" -> {"TransformationError"}
      [] stage = "Training" -> {"TrainingError", "AcceptanceError"}
      [] stage = "Evaluation" -> {"ConnectionError"}
      [] stage = "Pusher" -> {"DeploymentError"}

\* C6: the error that leaves run_pipeline is a MyException, and unwrapping it
\* leads through MyExceptions only to the exception first raised in the stage.
C6_UniformErrorCarriesCause ==
    pc = "Failed" =>
        /\ Len(error) >= 2
        /\ \A i \in 1 .. Len(error) - 1 : error[i] = "MyException"
        /\ error[Len(error)] \in StageLocalFailures(raised)

\* The ingestion failed on the missing environment variable: the Exception
\* is wrapped by the client, the data access, the two ingestion methods, the
\* start method and run_pipeline.
C6_Witness ==
    /\ pc = "Failed"
    /\ raised = "Ingestion"
    /\ error = <<"MyException", "MyException", "MyException", "MyException",
                 "MyException", "MyException", "Exception">>

\* C7: with no deployed model in the artifact store the evaluation does not
\* fail for that reason, and returns accepted = True with a score delta of 0
\* whatever the new model's score.
C7_NoDeployedModelAccepts ==
    ("Evaluation" \in InvokedStages /\ "Pusher" \notin InvokedStages
        /\ ~s3_exists(s3, MODEL_BUCKET_NAME, MODEL_FILE_NAME)) =>
        /\ raised = "Evaluation" => ~s3_reachable
        /\ raised # "Evaluation" =>
             /\ best_model = NoModel
             /\ model_evaluation_artifact # None
             /\ model_evaluation_artifact.is_model_accepted
             /\ model_evaluation_artifact.changed_accuracy = 0

\* An evaluation without a deployed model, of a new model scoring 0.75.
C7_Witness ==
    /\ pc = "Pushing"
    /\ best_model = NoModel
    /\ model_trainer_artifact.metric_artifact.f1_score = 75
    /\ model_evaluation_artifact.is_model_accepted

\* C8: with a deployed model the evaluation returns the difference of the
\* new and the old score, and accepts exactly when that difference is
\* strictly above the threshold of 0.02.
C8_StrictThreshold ==
    (model_evaluation_artifact # None /\ best_model # None /\ best_model.exists) =>
        LET new_f1 == model_trainer_artifact.metric_artifact.f1_score
            old_f1 == best_model.f1_score
        IN  /\ model_evaluation_artifact.changed_accuracy = new_f1 - old_f1
            /\ new_f1 - old_f1 <= 2 => ~model_evaluation_artifact.is_model_accepted
            /\ new_f1 - old_f1 > 2 => model_evaluation_artifact.is_model_accepted

\* An improvement of exactly the threshold, from 0.70 to 0.72, is rejected.
C8_Witness ==
    /\ best_model = Model(70)
    /\ model_evaluation_artifact # None
    /\ model_trainer_artifact.metric_artifact.f1_score = 72
    /\ ~model_evaluation_artifact.is_model_accepted

\* C9: a first run in which no stage raises completes with an accepted
\* evaluation followed by the Pusher; the Pusher's artifact names the
\* configured bucket, and the bucket and key it wrote are those the
\* evaluation looked up.
C9_FirstRunPushes ==
    (pc \in {"Stopped", "Completed"} /\ best_model = NoModel) =>
        /\ pc = "Completed"
        /\ model_evaluation_artifact.is_model_accepted
        /\ invoked[5] = "Evaluation" /\ invoked[6] = "Pusher"
        /\ model_pusher_artifact # None
        /\ model_pusher_artifact.bucket_name = "my-model-mlopsproj"
        /\ model_pusher_artifact.bucket_name = ModelEvaluationConfig.bucket_name
        /\ model_pusher_artifact.s3_model_path = model_evaluation_artifact.s3_model_path
        /\ s3_exists(s3, ModelEvaluationConfig.bucket_name,
                     model_evaluation_artifact.s3_model_path)

\* A completed first run.
C9_Witness ==
    /\ pc = "Completed"
    /\ best_model = NoModel
    /\ model_pusher_artifact # None

\* C10: the ingestion raises and returns no artifact whenever the source
\* collection is unreachable or has no records.
C10_UnreachableOrEmptySourceFails ==
    ("Ingestion" \in InvokedStages /\ (~mongo_reachable \/ collection.n = 0)) =>
        /\ data_ingestion_artifact = None
        /\ raised = "Ingestion"
        /\ pc = "Failed"

\* The ingestion of a reachable collection without records.
C10_Witness ==
    /\ "Ingestion" \in InvokedStages
    /\ mongo_reachable
    /\ env_MONGODB_URL
    /\ collection.n = 0
    /\ raised = "Ingestion"

\* The configured split ratio in hundredths, whatever its Python type.
RatioValue == IF ing_config.train_test_split_ratio.kind = "f"
              THEN ing_config.train_test_split_ratio.v
              ELSE 100 * ing_config.train_test_split_ratio.v

\* The rows of the file written at path, if one was written.
WrittenAt(path) == {f \in files : f.path = path}

\* C11: the ingestion fails and returns no artifact whenever the configured
\* split ratio is at most 0 or at least 1, for every source with records.
C11_RatioOutsideUnitIntervalFails ==
    (/\ ing_pc \in {"returned", "failed"}
     /\ collection.n > 0
     /\ (RatioValue <= 0 \/ RatioValue >= 100)) =>
        /\ ing_pc = "failed"
        /\ error # NoError
        /\ data_ingestion_artifact = None

C13_ArtifactFullyPopulatedOrNone ==
    /\ data_ingestion_artifact # None =>
          /\ ing_pc = "returned"
          /\ error = NoError
          /\ WrittenAt(ing_config.feature_store_file_path) # {}
          /\ data_ingestion_artifact.trained_file_path = ing_config.training_file_path
          /\ data_ingestion_artifact.test_file_path = ing_config.testing_file_path
          /\ WrittenAt(data_ingestion_artifact.trained_file_path) # {}
          /\ WrittenAt(data_ingestion_artifact.test_file_path) # {}
    /\ ing_pc = "failed" => data_ingestion_artifact = None /\ error # NoError
    /\ ing_pc = "returned" => data_ingestion_artifact # None

\* A returned artifact, and a failure after some files were written.
C13_Witness ==
    /\ ing_pc = "returned"
    /\ data_ingestion_artifact # None
    /\ Cardinality(files) = 3

\* The statements of initiate_data_ingestion in program order.
IngestionSteps ==
    <<"fetch", "persist_snapshot", "split", "persist_train", "persist_test",
      "return_artifact">>

\* C19: the ingestion steps run in the order fetch, persist snapshot, split,
\* persist train file, persist test file, return artifact; a failure at the
\* split leaves the snapshot written, the train and test files unwritten
\* and no artifact.
C19_StepOrderAndSplitFailure ==
    /\ Len(ing_steps) <= Len(IngestionSteps)
    /\ ing_steps = SubSeq(IngestionSteps, 1, Len(ing_steps))
    /\ (ing_pc = "failed" /\ ing_steps[Len(ing_steps)] = "split") =>
          /\ WrittenAt(ing_config.feature_store_file_path) # {}
          /\ WrittenAt(ing_config.training_file_path) = {}
          /\ WrittenAt(ing_config.testing_file_path) = {}
          /\ data_ingestion_artifact = None

\* A split that failed on an invalid ratio after the snapshot was written.
C19_Witness ==
    /\ ing_pc = "failed"
    /\ ing_steps = <<"fetch", "persist_snapshot", "split">>
    /\ collection.n > 0
    /\ RatioValue >= 100
    /\ WrittenAt(ing_config.feature_store_file_path) # {}
    /\ error = MyException(MyException(<<"ValueError">>))

\* The artifact variables of run_pipeline.
Artifacts ==
    <<data_ingestion_artifact, data_validation_artifact, data_transformation_artifact,
      model_trainer_artifact, model_evaluation_artifact, model_pusher_artifact>>

\* The arguments run_pipeline gives each consuming stage.
Consumed ==
    [Validation |-> <<data_ingestion_artifact>>,
     Transformation |-> <<data_ingestion_artifact, data_validation_artifact>>,
     Training |-> <<data_transformation_artifact>>,
     Evaluation |-> <<data_ingestion_artifact, model_trainer_artifact>>,
     Pusher |-> <<model_evaluation_artifact>>]

\* C14: an artifact a stage has returned is never changed by a later step of
\* run_pipeline, and every consuming stage is passed exactly the artifacts
\* produced earlier in the same run.
C14_ArtifactsNeverMutated ==
    [][/\ \A i \in 1 .. Len(Artifacts) :
             Artifacts[i] # None => Artifacts'[i] = Artifacts[i]
       /\ \A stage \in DOMAIN Consumed :
             stage \in InvokedStages' =>
                 /\ passed'[stage] = Consumed'[stage]
                 /\ \A i \in 1 .. Len(passed'[stage]) : passed'[stage][i] # None]_vars

\* The evaluation was handed the ingestion and trainer artifacts long after
\* they were produced, and the run went on to the pusher.
C14_Witness ==
    /\ pc = "Completed"
    /\ passed["Evaluation"] = <<data_ingestion_artifact, model_trainer_artifact>>
    /\ passed["Pusher"] = <<model_evaluation_artifact>>
    /\ data_ingestion_artifact # None
    /\ model_trainer_artifact # None

\* The run is over: run_pipeline returned or raised.
RunEnded == pc \in {"Stopped", "Completed", "Failed"}

\* C18: a run ends without a call of the Pusher only because the evaluation
\* rejected the model or because one of the five earlier stages raised; when
\* the five earlier stages returned and the evaluation accepted, the Pusher
\* is called exactly once, and the run completes if the Pusher returns.
C18_OnlyRejectionOrFailureSkipsPusher ==
    /\ (RunEnded /\ "Pusher" \notin InvokedStages) =>
          \/ /\ pc = "Stopped"
             /\ model_evaluation_artifact # None
             /\ ~model_evaluation_artifact.is_model_accepted
          \/ /\ pc = "Failed"
             /\ raised \in StageNames \ {"Pusher"}
             /\ error # NoError
    /\ (/\ RunEnded
        /\ model_evaluation_artifact # None
        /\ model_evaluation_artifact.is_model_accepted) =>
          /\ Calls("Pusher") = 1
          /\ raised \in {"None", "Pusher"}
          /\ model_pusher_artifact # None <=> pc = "Completed"
          /\ pc = "Completed" => error = NoError
          /\ pc # "Stopped"

\* A run over an already deployed model that the new one beat, pushed.
C18_Witness ==
    /\ pc = "Completed"
    /\ best_model # NoModel
    /\ model_evaluation_artifact.is_model_accepted
    /\ Calls("Pusher") = 1
    /\ model_pusher_artifact # None

\* C15: after any sequence of constructions at most one MongoClient
\* connection has been created, and every constructed MongoDBClient holds
\* that shared client, whatever database name it was given.
C15_OneSharedConnection ==
    /\ Cardinality(connections) <= 1
    /\ \A i \in DOMAIN instances :
          /\ instances[i].client = MongoDBClient_client
          /\ connections = {instances[i].client}

\* Three instances over two database names on one connection.
C15_Witness ==
    /\ Len(instances) = 3
    /\ {instances[i].database_name : i \in DOMAIN instances} = Databases
    /\ connections = {TheMongoClient}

\* The documents the last export asked for: those of the named collection in
\* the named database, or in DATABASE_NAME when no database was named.
Requested ==
    Find(collection,
         IF export_result.database_name = None
         THEN DATABASE_NAME ELSE export_result.database_name.s,
         export_result.collection_name)

\* C16: the table export_collection_as_dataframe returns has no '_id'
\* column, for every collection whose documents carry an '_id' field.
C16_IdentifierColumnRemoved ==
    (/\ export_result # None
     /\ export_result.result.ok
     /\ "_id" \in Requested.fields) =>
        "_id" \notin export_result.result.val.columns

\* C20: export_collection_as_dataframe returns the records of the named
\* collection, read from the database named by database_name when that
\* argument is given and from DATABASE_NAME when it is not.
C20_ReadsNamedOrDefaultDatabase ==
    (export_result # None /\ mongo_reachable) =>
        /\ export_result.result.ok
        /\ export_result.result.val.rows = Requested.n

\* C17: any two runs use distinct run directories, so no run writes a file
\* path that another run has written.
C17_RunsWriteDisjointPaths ==
    \A w1 \in writes, w2 \in writes : w1.path = w2.path => w1.run = w2.run

\* C21: a construction that finds no shared client and MONGODB_URL unset
\* fails with MyException and leaves the shared client unset, so the next
\* construction tries the connection again; a construction that finds a
\* shared client succeeds and keeps it, whether or not MONGODB_URL is set.
C21_FailedConstructionLeavesClientUnset ==
    \A i \in DOMAIN attempts :
        LET a == attempts[i]
        IN  /\ (a.before = NoClient /\ ~a.url_set) =>
                  /\ ~a.ok
                  /\ Len(a.exc) >= 2
                  /\ a.exc[1] = "MyException"
                  /\ a.exc[Len(a.exc)] = "Exception"
                  /\ a.after = NoClient
            /\ (a.before = NoClient /\ a.url_set) =>
                  /\ a.ok
                  /\ a.after = pymongo_MongoClient(a.before)
            /\ a.before # NoClient =>
                  /\ a.ok
                  /\ a.after = a.before
            /\ i > 1 => a.before = attempts[i - 1].after

\* A failed construction, a second try that connects once the variable is
\* set, and a third that succeeds after the variable was deleted again.
C21_Witness ==
    /\ Len(attempts) = 3
    /\ ~attempts[1].ok
    /\ attempts[2].ok
    /\ attempts[2].before = NoClient
    /\ attempts[3].ok
    /\ ~attempts[3].url_set
    /\ Len(instances) = 2

\* C22: in every run in which the Pusher is called the new model's score is
\* at least the configured minimum expected score, also when no model was
\* deployed before; the Trainer returns no artifact for a lower score.
C22_NoModelBelowMinimumIsPushed ==
    /\ model_trainer_artifact # None =>
          model_trainer_artifact.metric_artifact.f1_score >= MODEL_TRAINER_EXPECTED_SCORE
    /\ "Pusher" \in InvokedStages =>
          /\ model_trainer_artifact # None
          /\ passed["Evaluation"][2] = model_trainer_artifact
          /\ model_trainer_artifact.metric_artifact.f1_score >= MODEL_TRAINER_EXPECTED_SCORE
    /\ (pc = "Failed" /\ raised = "Training") =>
          /\ model_trainer_artifact = None
          /\ "Pusher" \notin InvokedStages

\* A model exactly at the minimum pushed on the no-previous-model path.
C22_Witness ==
    /\ "Pusher" \in InvokedStages
    /\ best_model = NoModel
    /\ model_trainer_artifact.metric_artifact.f1_score = MODEL_TRAINER_EXPECTED_SCORE
    /\ model_pusher_artifact # None

\* C23: when every stage call eventually returns or raises, the run
\* eventually reaches a terminal outcome (completed, stopped or failed), the
\* outcome agrees with what the stages did, and nothing changes afterwards.
C23_RunTerminates ==
    /\ <>RunEnded
    /\ [][~RunEnded]_vars
    /\ [](RunEnded =>
            /\ pc = "Completed" <=> model_pusher_artifact # None
            /\ pc = "Failed" <=> raised # "None"
            /\ pc = "Stopped" <=> (raised = "None" /\ model_pusher_artifact = None))

\* A run that went through all six stages and ended with the pusher raising.
C23_Witness ==
    /\ pc = "Failed"
    /\ raised = "Pusher"
    /\ Len(invoked) = 6
    /\ ~ENABLED Next

====
